---- MODULE Spec2Model ----
(***************************************************************************)
(* Model of the game core of src/src/CyberpunkSnake2077.jsx: the session   *)
(* state held in stateRef and in the React state cells, the key handlers,  *)
(* resetGame, the frame callback `step` and the simulation step logicStep. *)
(* Cells and directions are pairs <<x, y>>; the snake is a sequence with   *)
(* the head at index 1.  Time is in integer milliseconds.                  *)
(***************************************************************************)
EXTENDS Integers, Sequences, FiniteSets

(* ------------------------------ bounds --------------------------------- *)

\* grid size used for checking (the program's grid is 40 x 24)
Cols == 6
Rows == 4
\* the score is not allowed to grow beyond this value
MaxScore == 20
\* the last frame timestamp considered
MaxTs == 510
\* the random row of a food cell is drawn among the last FoodRows rows,
\* its random column among the last FoodCols columns
FoodRows == 2
FoodCols == 3
\* how far (ms) the speed keys may take the interval from its initial value
MaxSpeedMs == 5
\* how far a slider value may lie outside MIN_MS..MAX_MS
SliderSlack == 5

(* --------------------------- program constants ------------------------- *)

MIN_MS == 30
MAX_MS == 300
InitialTickMs == 85
SpeedStepMs == 5
FoodAward == 10
\* particles pushed by a burst after a food, after a collision
EatBurst == 12
DeathBurst == 20
\* the cap on the particle list
ParticleCap == 400
\* the life of a new particle (1) in units of the per-frame decay (0.02)
ParticleLife == 50

\* delays between two display frames: one initial tick interval, a delayed frame
FrameDeltas == {InitialTickMs, 2 * InitialTickMs}

\* values the storage may hold under "cyber_snk_high" when the page loads
NoItem == <<"null">>
StoredAtLoad == {NoItem, <<"0">>, <<"1", "0">>, <<"2", "0">>}
\* values under the key that are not a decimal integer
CorruptAtLoad == {<<>>, <<"x">>, <<"1", "x">>}

(* ------------------------------ helpers -------------------------------- *)

NaN == -1

Digits == <<"0", "1", "2", "3", "4", "5", "6", "7", "8", "9">>

DigitVal(c) == (CHOOSE i \in 1..10 : Digits[i] = c) - 1

IsDigit(c) == \E i \in 1..10 : Digits[i] = c

RECURSIVE ParseDigits(_, _, _)
ParseDigits(s, i, acc) ==
    IF i > Len(s) \/ ~IsDigit(s[i]) THEN acc
    ELSE ParseDigits(s, i + 1, acc * 10 + DigitVal(s[i]))

\* parseInt(v, 10): the longest decimal prefix, NaN when there is none
ParseInt(s) ==
    IF Len(s) = 0 \/ ~IsDigit(s[1]) THEN NaN ELSE ParseDigits(s, 1, 0)

RECURSIVE StringOf(_)
\* String(n) for a non-negative integer or NaN
StringOf(n) ==
    IF n = NaN THEN <<"N", "a", "N">>
    ELSE IF n < 10 THEN <<Digits[n + 1]>>
    ELSE StringOf(n \div 10) \o <<Digits[(n % 10) + 1]>>

\* the initializer of the `high` state cell
LoadHigh(v) == IF v # NoItem /\ Len(v) > 0 THEN ParseInt(v) ELSE 0

MathMax(a, b) == IF a = NaN \/ b = NaN THEN NaN ELSE IF a >= b THEN a ELSE b

MathMin(a, b) == IF a = NaN \/ b = NaN THEN NaN ELSE IF a <= b THEN a ELSE b

Cells == (0..(Cols - 1)) \X (0..(Rows - 1))

Dirs == {<<0, -1>>, <<0, 1>>, <<-1, 0>>, <<1, 0>>}

\* snake.some(s => s.x === c.x && s.y === c.y)
OnSnake(s, c) == \E i \in 1..Len(s) : s[i][1] = c[1] /\ s[i][2] = c[2]

\* the % operator of the language: the remainder has the sign of the dividend
JsRem(a, n) == IF a >= 0 THEN a % n ELSE -((-a) % n)

WrapHead_noWrap(head, d) == <<head[1] + d[1], head[2] + d[2]>>

\* the wrapped next head of logicStep
WrapHead(head, d) ==
    <<JsRem(head[1] + d[1] + Cols, Cols), JsRem(head[2] + d[2] + Rows, Rows)>>

\* the values randInt(min, max) can return
randInt(min, max) == min..max

AllDraws_firstRow == randInt(0, Cols - 1) \X randInt(0, 0)

\* the cells one round of the spawnFood loop can draw
AllDraws == randInt(0, Cols - 1) \X randInt(0, Rows - 1)

\* the random draws of one round of the spawnFood loop that are followed
FoodDraws ==
    {c \in AllDraws :
        c[1] >= Cols - FoodCols /\ c[2] >= Rows - FoodRows}

SpawnFood_ignoresHead(s) == {c \in FoodDraws : ~OnSnake(Tail(s), c)}

\* the cells spawnFood can return: its loop ends on a draw off the snake
SpawnFood(s) == {c \in FoodDraws : ~OnSnake(s, c)}

InitialSnake_short ==
    LET midX == Cols \div 3
        midY == Rows \div 2
    IN  <<<<midX, midY>>, <<midX - 1, midY>>>>

\* the snake resetGame lays out
InitialSnake ==
    LET midX == Cols \div 3
        midY == Rows \div 2
    IN  <<<<midX, midY>>, <<midX - 1, midY>>, <<midX - 2, midY>>>>

(* ------------------------------- state --------------------------------- *)

VARIABLES
    snake,      \* stateRef.current.snake
    dir,        \* stateRef.current.dir, the committed direction
    nextDir,    \* stateRef.current.nextDir, the pending direction
    food,       \* stateRef.current.food
    dead,       \* stateRef.current.dead
    lastStep,   \* stateRef.current.lastStep
    running,    \* React state `running`
    tickMs,     \* React state `tickMs`
    score,      \* React state `score`
    high,       \* React state `high`
    scoreRef,   \* scoreRef.current
    highRef,    \* highRef.current
    stored,     \* localStorage item "cyber_snk_high"
    ts,         \* timestamp of the latest display frame (0: none yet)
    particles,  \* stateRef.current.particles: the remaining life of each
    storage,    \* what the browser lets the page do with localStorage
    error,      \* an exception escaped a handler: the component is gone
    spawn       \* the call of spawnFood in progress: its position, its draw

vars == <<snake, dir, nextDir, food, dead, lastStep, running, tickMs,
          score, high, scoreRef, highRef, stored, ts, particles, storage, spawn, error>>

gameVars == <<snake, dir, food, dead, score, high, scoreRef, highRef, stored,
              storage, spawn, error>>

\* no cell drawn
NoCell == <<-1, -1>>

\* no call of spawnFood is in progress
Idle == [pc |-> "idle", c |-> NoCell]

\* localStorage works; its writes throw; its reads and writes throw
StorageModes == {"ok", "readonly", "blocked"}

\* the state after mount: the state initializers, then the reset effect
Mount(atLoad) ==
    /\ stored \in atLoad
    /\ error = FALSE
    /\ high = LoadHigh(stored)
    /\ highRef = high
    /\ score = 0
    /\ scoreRef = 0
    /\ running = TRUE
    /\ tickMs = InitialTickMs
    /\ snake = InitialSnake
    /\ dir = <<1, 0>>
    /\ nextDir = <<1, 0>>
    /\ food \in SpawnFood(InitialSnake)
    /\ dead = FALSE
    /\ particles = <<>>
    /\ spawn = Idle
    /\ lastStep = 0
    /\ ts = 0

\* the mount in a browser whose storage works
InitWith(atLoad) == storage = "ok" /\ Mount(atLoad)

\* localStorage.getItem throws in the initializer of `high`: the first
\* render fails, no state cell after `score` exists and no effect runs;
\* the other variables hold what their declarations name
MountFails ==
    /\ stored \in StoredAtLoad
    /\ error = TRUE
    /\ high = 0
    /\ highRef = 0
    /\ score = 0
    /\ scoreRef = 0
    /\ running = TRUE
    /\ tickMs = InitialTickMs
    /\ snake = <<>>
    /\ dir = <<1, 0>>
    /\ nextDir = <<1, 0>>
    /\ food = <<10, 10>>
    /\ dead = FALSE
    /\ particles = <<>>
    /\ spawn = Idle
    /\ lastStep = 0
    /\ ts = 0

(* ------------------------------ handlers ------------------------------- *)

\* handlers and frames exist only while the component is mounted
Mounted == ~error

SetDirAccepts_pending(d) == d[1] # -nextDir[1] \/ d[2] # -nextDir[2]

SetDirAccepts_any(d) == TRUE

SetDirAccepts_same(d) == d[1] # dir[1] \/ d[2] # dir[2]

\* setDir(x, y) of the keyboard handler: the test that guards the assignment
SetDirAccepts(d) == d[1] # -dir[1] \/ d[2] # -dir[2]

\* nextDir after setDir(x, y)
NextDirAfter(d) == IF SetDirAccepts(d) THEN d ELSE nextDir

KeyDir_commits(d) ==
    /\ Mounted
    /\ nextDir' = NextDirAfter(d)
    /\ dir' = nextDir'
    /\ UNCHANGED <<snake, food, dead, score, high, scoreRef, highRef, stored,
                   storage, spawn, error, lastStep, running, tickMs, ts, particles>>

\* a direction key: arrows and W, A, S, D
KeyDir(d) ==
    /\ Mounted
    /\ nextDir' = NextDirAfter(d)
    /\ UNCHANGED <<gameVars, lastStep, running, tickMs, ts, particles>>

\* Space key and the Pause/Resume button
TogglePause ==
    /\ Mounted
    /\ running' = ~running
    /\ UNCHANGED <<gameVars, nextDir, lastStep, tickMs, ts, particles>>

FasterMs_noClamp(ms) == ms - SpeedStepMs

FasterMs(ms) == MathMax(MIN_MS, ms - SpeedStepMs)

SlowerMs(ms) == MathMin(MAX_MS, ms + SpeedStepMs)

\* "+" and "=" keys
PressFaster ==
    /\ Mounted
    /\ tickMs' = FasterMs(tickMs)
    /\ UNCHANGED <<gameVars, nextDir, lastStep, running, ts, particles>>

\* "-" key
PressSlower ==
    /\ Mounted
    /\ tickMs' = SlowerMs(tickMs)
    /\ UNCHANGED <<gameVars, nextDir, lastStep, running, ts, particles>>

\* the speed keys, kept near the initial interval
KeyFaster ==
    /\ FasterMs(tickMs) >= InitialTickMs - MaxSpeedMs
    /\ PressFaster

KeySlower ==
    /\ SlowerMs(tickMs) <= InitialTickMs + MaxSpeedMs
    /\ PressSlower

clamp(v, lo, hi) == MathMax(lo, MathMin(hi, v))

tickMsToSlider_noInvert(ms) == clamp(ms, MIN_MS, MAX_MS)

\* the slider position shown for an interval
tickMsToSlider(ms) == clamp(MAX_MS + MIN_MS - ms, MIN_MS, MAX_MS)

\* the interval of a slider position
sliderToTickMs(sliderVal) == clamp(MAX_MS + MIN_MS - sliderVal, MIN_MS, MAX_MS)

\* onChange of the speed slider with the integer value v
SliderChange(v) ==
    /\ Mounted
    /\ tickMs' = sliderToTickMs(v)
    /\ UNCHANGED <<gameVars, nextDir, lastStep, running, ts, particles>>

ResetGame_keepsParticles ==
    /\ Mounted
    /\ snake' = InitialSnake
    /\ dir' = <<1, 0>>
    /\ nextDir' = <<1, 0>>
    /\ food' \in SpawnFood(InitialSnake)
    /\ dead' = FALSE
    /\ lastStep' = 0
    /\ score' = 0
    /\ scoreRef' = 0
    /\ running' = TRUE
    /\ UNCHANGED <<tickMs, high, highRef, stored, ts, storage, spawn, error, particles>>

\* resetGame: R key and the Reboot button
ResetGame ==
    /\ Mounted
    /\ snake' = InitialSnake
    /\ dir' = <<1, 0>>
    /\ nextDir' = <<1, 0>>
    /\ food' \in SpawnFood(InitialSnake)
    /\ dead' = FALSE
    /\ particles' = <<>>
    /\ lastStep' = 0
    /\ score' = 0
    /\ scoreRef' = 0
    /\ running' = TRUE
    /\ UNCHANGED <<tickMs, high, highRef, stored, ts, storage, spawn, error>>

(* --------------------------- simulation step --------------------------- *)

NewHead == WrapHead(snake[1], nextDir)

Collides_unchecked == FALSE

Collides_bodyOnly == OnSnake(SubSeq(snake, 1, Len(snake) - 1), NewHead)

Collides_walls ==
    \/ OnSnake(snake, NewHead)
    \/ snake[1][1] + nextDir[1] \notin 0..(Cols - 1)
    \/ snake[1][2] + nextDir[2] \notin 0..(Rows - 1)

\* the self-collision test
Collides == OnSnake(snake, NewHead)

Eats_never == FALSE

\* the food test of logicStep
Eats == NewHead[1] = food[1] /\ NewHead[2] = food[2]

\* the new score of the setScore updater
ScoreAfterEat_one(s) == s + 1

ScoreAfterEat(s) == s + FoodAward

BeatsHigh_never(ns) == FALSE

BeatsHigh_always(ns) == TRUE

\* the test of the setScore updater that guards the write of a new best
\* (a comparison with NaN is false)
BeatsHigh(ns) == highRef # NaN /\ ns > highRef

HighAtDeath_score(h, s) == s

\* the new high score of the setHigh updater of the terminal branch
HighAtDeath(h, s) == MathMax(h, s)

\* localStorage.setItem throws
WriteFails == storage # "ok"

StepCollision_prepends ==
    /\ dir' = nextDir
    /\ dead' = TRUE
    /\ snake' = <<NewHead>> \o snake
    /\ running' = FALSE
    /\ high' = HighAtDeath(high, scoreRef)
    /\ highRef' = high'
    /\ stored' = StringOf(high')
    /\ UNCHANGED <<food, score, scoreRef, nextDir, tickMs, storage, spawn, error>>

\* the terminal branch of logicStep; when the write throws in the setHigh
\* updater, no state update of the batch is committed
StepCollision ==
    /\ dir' = nextDir
    /\ dead' = TRUE
    /\ IF WriteFails
         THEN /\ error' = TRUE
              /\ UNCHANGED <<running, high, highRef, stored>>
         ELSE /\ running' = FALSE
              /\ high' = HighAtDeath(high, scoreRef)
              /\ highRef' = high'
              /\ stored' = StringOf(high')
              /\ UNCHANGED error
    /\ UNCHANGED <<snake, food, score, scoreRef, nextDir, tickMs, storage, spawn>>

\* the food branch of logicStep; when the write throws in the setScore
\* updater, the new score is not committed
StepEat ==
    /\ score + FoodAward <= MaxScore
    /\ dir' = nextDir
    /\ snake' = <<NewHead>> \o snake
    /\ IF BeatsHigh(ScoreAfterEat(score)) /\ WriteFails
         THEN /\ error' = TRUE
              /\ UNCHANGED <<score, scoreRef, stored, high, highRef>>
         ELSE /\ score' = ScoreAfterEat(score)
              /\ scoreRef' = score'
              /\ IF BeatsHigh(score')
                   THEN /\ stored' = StringOf(score')
                        /\ high' = score'
                   ELSE UNCHANGED <<stored, high>>
              /\ highRef' = high'
              /\ UNCHANGED error
    /\ food' \in SpawnFood(snake')
    /\ UNCHANGED <<dead, running, nextDir, tickMs, storage, spawn>>

StepMove_noPop ==
    /\ dir' = nextDir
    /\ snake' = <<NewHead>> \o snake
    /\ UNCHANGED <<food, score, scoreRef, high, highRef, stored,
                   dead, running, nextDir, tickMs, storage, spawn, error>>

\* the plain move of logicStep
StepMove ==
    /\ dir' = nextDir
    /\ snake' = <<NewHead>> \o SubSeq(snake, 1, Len(snake) - 1)
    /\ UNCHANGED <<food, score, scoreRef, high, highRef, stored,
                   dead, running, nextDir, tickMs, storage, spawn, error>>

\* n new particles
Burst(n) == [i \in 1..n |-> ParticleLife]

\* the oldest particles are dropped beyond the cap
CapParticles(ps) ==
    IF Len(ps) > ParticleCap THEN SubSeq(ps, Len(ps) - ParticleCap + 1, Len(ps)) ELSE ps

\* the particle list logicStep leaves: a burst and no trail on a collision,
\* else a burst after a food, a trail particle, and the cap
ParticlesAfterStep ==
    IF Collides THEN particles \o Burst(DeathBurst)
    ELSE IF Eats THEN CapParticles(particles \o Burst(EatBurst) \o Burst(1))
    ELSE CapParticles(particles \o Burst(1))

LogicStep ==
    IF Collides THEN StepCollision
    ELSE IF Eats THEN StepEat
    ELSE StepMove

\* drawParticles: every particle ages by one decay and is removed at life 0
DrawParticles(ps) ==
    LET aged == [i \in 1..Len(ps) |-> ps[i] - 1]
    IN  SelectSeq(aged, LAMBDA life : life > 0)

\* lastStep after the first statement of the frame callback
StartedAt(t) == IF lastStep = 0 THEN t ELSE lastStep

StepDue_ignoresDead(t) == running /\ t - StartedAt(t) >= tickMs

StepDue_ignoresPause(t) == ~dead /\ t - StartedAt(t) >= tickMs

StepDue_strict(t) == ~dead /\ running /\ t - StartedAt(t) > tickMs

\* the test of the frame callback that guards logicStep
StepDue(t) == ~dead /\ running /\ t - StartedAt(t) >= tickMs

\* the frame callback `step` called with timestamp t
Frame(t) ==
    /\ Mounted
    /\ t > ts
    /\ t <= MaxTs
    /\ ts' = t
    /\ IF StepDue(t)
         THEN /\ LogicStep
              /\ particles' = DrawParticles(ParticlesAfterStep)
              /\ lastStep' = t
         ELSE /\ lastStep' = StartedAt(t)
              /\ particles' = DrawParticles(particles)
              /\ UNCHANGED <<gameVars, nextDir, running, tickMs>>

Next ==
    \/ \E d \in Dirs : KeyDir(d)
    \/ TogglePause
    \/ KeyFaster
    \/ KeySlower
    \/ ResetGame
    \/ \E dt \in FrameDeltas : Frame(ts + dt)

\* a first visit: nothing is stored yet
Init == InitWith({NoItem})

Spec == Init /\ [][Next]_vars

\* a later visit: the storage may hold a best score of an earlier one
InitHigh == InitWith(StoredAtLoad)

NextHigh ==
    \/ \E d \in Dirs : KeyDir(d)
    \/ ResetGame
    \/ \E dt \in FrameDeltas : Frame(ts + dt)

SpecHigh == InitHigh /\ [][NextHigh]_vars

\* a visit that finds a value under the key that is not a decimal integer
InitCorrupt == InitWith(CorruptAtLoad)

SpecCorrupt == InitCorrupt /\ [][NextHigh]_vars

\* a visit in a browser that refuses writes to the storage, or every access
InitUnavailable ==
    /\ storage \in StorageModes \ {"ok"}
    /\ IF storage = "blocked" THEN MountFails ELSE Mount(StoredAtLoad)

SpecUnavailable == InitUnavailable /\ [][NextHigh]_vars

\* the values the slider's change handler may be given
SliderValues == (MIN_MS - SliderSlack)..(MAX_MS + SliderSlack)

NextSpeed ==
    \/ PressFaster
    \/ PressSlower
    \/ \E v \in SliderValues : SliderChange(v)

\* the speed controls alone, over their whole range
SpecSpeed == Init /\ [][NextSpeed]_vars

(* ------------------------- the loop of spawnFood ------------------------ *)

\* the k-th cell (from 0) of the path that runs through the rows of the
\* grid in turn, left to right and right to left alternately
Serpentine(k) ==
    LET row == k \div Cols
        col == k % Cols
    IN  <<IF row % 2 = 0 THEN col ELSE Cols - 1 - col, row>>

\* a snake of n cells that has followed that path from its first cell
LongSnake(n) == [i \in 1..n |-> Serpentine(n - i)]

\* a food-eaten tick of a snake of up to Cols * Rows cells, at the call of
\* spawnFood: the new head is prepended and the direction committed, the
\* score update is queued, the food is still the eaten cell
InitSpawn ==
    /\ \E n \in 4..(Cols * Rows) : snake = LongSnake(n)
    /\ spawn = [pc |-> "draw", c |-> NoCell]
    /\ food = snake[1]
    /\ dir = <<snake[1][1] - snake[2][1], snake[1][2] - snake[2][2]>>
    /\ nextDir = dir
    /\ dead = FALSE
    /\ score = FoodAward * (Len(snake) - 4)
    /\ scoreRef = score
    /\ high = score
    /\ highRef = high
    /\ stored = IF high = 0 THEN NoItem ELSE StringOf(high)
    /\ storage = "ok"
    /\ error = FALSE
    /\ running = TRUE
    /\ tickMs = InitialTickMs
    /\ particles = <<>>
    /\ lastStep = InitialTickMs
    /\ ts = 2 * InitialTickMs

\* a round of the loop that draws a cell of the snake: the loop goes on
SpawnMiss ==
    /\ Mounted
    /\ spawn.pc = "draw"
    /\ \E c \in AllDraws :
         /\ OnSnake(snake, c)
         /\ spawn' = [pc |-> "draw", c |-> c]
    /\ UNCHANGED <<snake, dir, nextDir, food, dead, lastStep, running, tickMs,
                   score, high, scoreRef, highRef, stored, ts, particles,
                   storage, error>>

\* a round of the loop that draws a cell off the snake: the loop ends
SpawnHit ==
    /\ Mounted
    /\ spawn.pc = "draw"
    /\ \E c \in AllDraws :
         /\ ~OnSnake(snake, c)
         /\ spawn' = [pc |-> "done", c |-> c]
    /\ UNCHANGED <<snake, dir, nextDir, food, dead, lastStep, running, tickMs,
                   score, high, scoreRef, highRef, stored, ts, particles,
                   storage, error>>

\* spawnFood returns and the tick and its frame complete
SpawnReturn ==
    /\ Mounted
    /\ spawn.pc = "done"
    /\ food' = spawn.c
    /\ spawn' = Idle
    /\ score' = ScoreAfterEat(score)
    /\ scoreRef' = score'
    /\ IF BeatsHigh(score')
         THEN /\ stored' = StringOf(score')
              /\ high' = score'
         ELSE UNCHANGED <<stored, high>>
    /\ highRef' = high'
    /\ particles' = DrawParticles(CapParticles(particles \o Burst(EatBurst) \o Burst(1)))
    /\ lastStep' = ts
    /\ UNCHANGED <<snake, dir, nextDir, dead, running, tickMs, ts, storage, error>>

NextSpawn ==
    \/ SpawnMiss
    \/ SpawnHit
    \/ SpawnReturn

\* the random choice is fair: a round that can draw a free cell is not
\* put off forever, and the code after the loop runs on
SpecSpawn ==
    InitSpawn /\ [][NextSpawn]_vars /\ WF_vars(SpawnHit) /\ WF_vars(SpawnReturn)

(* ------------------------ vocabulary of the claims ---------------------- *)

\* a step of the model in which the frame callback ran
FrameRan == ts' # ts

\* a step in which the frame callback ran logicStep: a simulation step always
\* moves the head or terminates the session
TickRan == FrameRan /\ (snake' # snake \/ dead' # dead)

\* a simulation step that did not end the session
MoveRan == FrameRan /\ snake' # snake

\* a step that is a restart
RestartRan ==
    /\ ts' = ts
    /\ snake' = <<<<Cols \div 3, Rows \div 2>>, <<Cols \div 3 - 1, Rows \div 2>>,
                  <<Cols \div 3 - 2, Rows \div 2>>>>
    /\ score' = 0
    /\ lastStep' = 0
    /\ ~dead'
    /\ running'

\* cell c moved by direction d on the torus
Torus(c, d) == <<(c[1] + d[1]) % Cols, (c[2] + d[2]) % Rows>>

CellSet(s) == {s[i] : i \in 1..Len(s)}

\* the larger of two integers
Largest(a, b) == IF a >= b THEN a ELSE b

\* the session's start layout and the cell ahead of it
StartLayout ==
    <<<<Cols \div 3, Rows \div 2>>, <<Cols \div 3 - 1, Rows \div 2>>,
      <<Cols \div 3 - 2, Rows \div 2>>>>

CellAhead == <<Cols \div 3 + 1, Rows \div 2>>

\* a step between frames that changes the session: only a restart does
RestartChanged ==
    /\ ts' = ts
    /\ \/ snake' # snake
       \/ dir' # dir
       \/ food' # food
       \/ score' # score
       \/ dead' # dead
       \/ lastStep' # lastStep
       \/ particles' # particles

\* a simulation step that ate the food, one that ended the session
FoodTick == MoveRan /\ Len(snake') > Len(snake)

TerminalTick == FrameRan /\ dead' /\ ~dead

\* the number a load reads from the storage
StoredBest == LoadHigh(stored)

\* a stored text that is a decimal integer
IsDecimal(v) == v # NoItem /\ Len(v) > 0 /\ \A i \in 1..Len(v) : IsDigit(v[i])

(* -------------------------------- claims -------------------------------- *)

\* C1: in every reachable state the cells of the snake are pairwise
\* distinct, also in the state a self-collision tick leaves behind.
C1_SnakeCellsDistinct ==
    \A i, j \in 1..Len(snake) : i # j => snake[i] # snake[j]

\* a session of length 4 that a self-collision tick has terminated
C1_Witness == dead /\ Len(snake) = 4 /\ Cardinality(CellSet(snake)) = 4

\* C2: a simulation step that does not end the session prepends the new
\* head; when the new head is not the food cell it drops the tail and the
\* length stays the same, when it is the food cell it keeps the tail and
\* the length grows by exactly 1.
C2_LengthRule ==
    [][MoveRan =>
        /\ \A i \in 1..(Len(snake) - 1) : snake'[i + 1] = snake[i]
        /\ IF snake'[1] = food
             THEN Len(snake') = Len(snake) + 1 /\ snake'[Len(snake')] = snake[Len(snake)]
             ELSE Len(snake') = Len(snake)]_vars

\* the snake grew once and then moved on without eating
C2_Witness == Len(snake) = 4 /\ score = 10 /\ ts = lastStep /\ ts >= 4 * InitialTickMs

\* C3: a simulation step terminates the session exactly when the wrapped
\* next head is a cell of the snake, and nothing but a simulation step ever
\* sets the terminated flag.
C3_DeadIffSelfCollision ==
    [][/\ TickRan => (dead' <=> Torus(snake[1], nextDir) \in CellSet(snake))
       /\ ~TickRan => (dead' => dead)]_vars

\* the head crossed the right edge and the session goes on
C3_Witness == ~dead /\ snake[1][1] = 0 /\ snake[2][1] = Cols - 1 /\ ts > 0

\* C4: the next head of a simulation step is the head plus the committed
\* direction modulo (Cols, Rows), and every snake cell and the food cell
\* lie on the grid in every reachable state.
C4_WrapsOntoGrid ==
    /\ [](/\ \A i \in 1..Len(snake) :
                /\ 0 <= snake[i][1] /\ snake[i][1] < Cols
                /\ 0 <= snake[i][2] /\ snake[i][2] < Rows
          /\ 0 <= food[1] /\ food[1] < Cols
          /\ 0 <= food[2] /\ food[2] < Rows)
    /\ [][MoveRan =>
            /\ snake'[1] = Torus(snake[1], dir')
            /\ (snake[1][1] = Cols - 1 /\ dir' = <<1, 0>>  => snake'[1][1] = 0)
            /\ (snake[1][1] = 0 /\ dir' = <<-1, 0>>        => snake'[1][1] = Cols - 1)
            /\ (snake[1][2] = Rows - 1 /\ dir' = <<0, 1>>  => snake'[1][2] = 0)
            /\ (snake[1][2] = 0 /\ dir' = <<0, -1>>        => snake'[1][2] = Rows - 1)]_vars

\* the head crossed the top edge
C4_Witness == snake[1][2] = Rows - 1 /\ snake[2][2] = 0 /\ dir = <<0, -1>>

\* C5: the direction a simulation step commits is never the opposite of the
\* direction committed before it, and its next head is never the neck cell.
C5_NoReversal ==
    [][TickRan =>
        /\ dir' # <<-dir[1], -dir[2]>>
        /\ Torus(snake[1], dir') # snake[2]]_vars

\* the snake heads left after two turns, and a key was accepted while paused
C5_Witness == dir = <<-1, 0>> /\ ~running /\ ~dead /\ nextDir # dir

\* C6: the score changes only on a simulation step whose new head is the
\* food cell, and then by exactly +10; every other step but a restart
\* leaves it unchanged (it never decreases within a session).
C6_ScoreRule ==
    [][IF MoveRan /\ snake'[1] = food
         THEN score' = score + 10
         ELSE score' = score \/ RestartRan]_vars

\* two foods were eaten in one session
C6_Witness == score = 20 /\ Len(snake) = 5

\* C7: a food-eaten simulation step recomputes the tick interval from the
\* score by a non-increasing function, so after it the interval is never
\* longer than the interval the program starts with at score 0.
C7_EatRecomputesInterval ==
    [][MoveRan /\ snake'[1] = food => tickMs' <= InitialTickMs]_vars

\* C8: once the session is terminated, the snake, the food, the score and
\* the committed direction stay as they are and the session stays
\* terminated, whatever keys are pressed and frames run, until a restart.
C8_FrozenWhenDead ==
    [][dead =>
        \/ RestartRan
        \/ /\ snake' = snake
           /\ food' = food
           /\ score' = score
           /\ dir' = dir
           /\ dead']_vars

\* a frame ran after the terminating one, with the running flag toggled
\* back on and the interval changed
C8_Witness == dead /\ running /\ ts > lastStep /\ tickMs # InitialTickMs

\* the time the frame with timestamp t measures from: an unset lastStep (0,
\* at start and after a restart) is first set to t itself
MeasuredFrom(t) == IF lastStep = 0 THEN t ELSE lastStep

\* C9: a frame runs at most one simulation step, and runs one exactly when
\* the session is running, not terminated and (frame timestamp - lastStep)
\* >= tickMs, lastStep being the value the frame compares with (a frame
\* that finds it unset has set it to its own timestamp just before); the
\* step sets lastStep to the frame's timestamp, so the frame after a gap
\* runs one step and the next one none before tickMs has passed again.
C9_StepIffElapsed ==
    [][FrameRan =>
        /\ TickRan <=> (running /\ ~dead /\ ts' - MeasuredFrom(ts') >= tickMs)
        /\ lastStep' = IF TickRan THEN ts' ELSE MeasuredFrom(ts')
        /\ MoveRan => snake'[2] = snake[1]]_vars

\* a long gap (a pause or delayed frames) was followed by a single step:
\* the head is one cell from its start cell at the latest timestamp
C9_Witness ==
    /\ lastStep = ts /\ ts >= 5 * InitialTickMs
    /\ running /\ ~dead
    /\ snake[1] = <<Cols \div 3 + 1, Rows \div 2>> /\ Len(snake) = 3

\* C10: the high score is at least the score in every reachable state, a
\* step that raises the score above the high score raises the high score to
\* the new score, and the high score never decreases.
C10_HighAtLeastScore ==
    /\ [](high >= score)
    /\ [][high' >= high /\ (score' > high => high' = score')]_vars

\* two foods were eaten and the high score followed the score
C10_Witness == score = 20 /\ high = 20 /\ highRef = 20

\* C11: the number stored under the key never decreases: a terminal tick
\* leaves the larger of the stored number and the score it offers, a
\* food-eaten tick the larger of the stored number and the new score, so an
\* offer that is not greater leaves the stored number as it was, and no
\* other step changes it.
C11_StoredBestIsMax ==
    [][/\ StoredBest' >= StoredBest
       /\ StoredBest' = IF TerminalTick THEN Largest(StoredBest, score)
                        ELSE IF FoodTick THEN Largest(StoredBest, score')
                        ELSE StoredBest]_vars

\* a session that found 20 stored ended with score 10: 20 is still stored
C11_Witness == dead /\ score = 10 /\ stored = <<"2", "0">> /\ high = 20

\* C12: a load that finds no value or a value that is not a decimal integer
\* yields 0, and the high score is then always a non-negative integer that
\* is at least the score.
C12_MalformedLoadsAsZero ==
    /\ ~IsDecimal(stored) => high = 0
    /\ [](high >= 0 /\ high >= score)

\* C13: with the storage unavailable no error escapes: the component stays
\* mounted, the load yields 0 when the read fails, and a food-eaten tick
\* and a terminal tick update score and high score as with a working write.
C13_NoErrorReachesCaller ==
    /\ storage = "blocked" => high = 0
    /\ [](~error)
    /\ [][/\ FoodTick => score' = score + 10 /\ high' = Largest(high, score')
          /\ TerminalTick => high' = Largest(high, score) /\ ~running']_vars

\* C14: a restart, from any state, leaves the start layout (the cells
\* (midX,midY), (midX-1,midY), (midX-2,midY) of the grid), both directions
\* (1,0), score 0, a running session that is not terminated, no particles,
\* and a food cell of the grid off the three snake cells.
C14_RestartResult ==
    [][RestartChanged =>
        /\ snake' = StartLayout
        /\ dir' = <<1, 0>> /\ nextDir' = <<1, 0>>
        /\ score' = 0
        /\ running' /\ ~dead'
        /\ particles' = <<>>
        /\ food' \in Cells \ CellSet(snake')]_vars

\* a session that had eaten and left particles was restarted: the start
\* timestamp is unset although frames have run
C14_Witness ==
    /\ ts > 0 /\ lastStep = 0
    /\ high >= 10 /\ score = 0
    /\ snake = StartLayout /\ particles = <<>>
    /\ running /\ ~dead

\* C15: while the session is paused and not terminated, a frame leaves
\* snake, committed direction, food and score unchanged; a direction key
\* still sets the pending direction to any direction that does not reverse
\* the committed one; and a step that sets the status back to running is a
\* restart or changes nothing else, so that the next due frame steps again.
C15_PausedFreezes ==
    /\ []((~running /\ ~dead) =>
            \A d \in Dirs : d # <<-dir[1], -dir[2]>> => NextDirAfter(d) = d)
    /\ [][/\ (FrameRan /\ ~running /\ ~dead) =>
               (snake' = snake /\ dir' = dir /\ food' = food /\ score' = score)
          /\ (~running /\ running') =>
               \/ RestartRan
               \/ UNCHANGED <<snake, dir, nextDir, food, score, dead, lastStep, tickMs>>
          /\ (FrameRan /\ running /\ ~dead /\ ts' - lastStep >= tickMs /\ lastStep > 0)
               => TickRan]_vars

\* paused for at least two intervals since the last step, with a turn
\* buffered during the pause
C15_Witness ==
    /\ ~running /\ ~dead
    /\ lastStep > 0 /\ ts - lastStep >= 2 * tickMs
    /\ nextDir # dir

\* C16: the food cell is never a cell of the snake.
C16_FoodOffSnake == food \notin CellSet(snake)

\* a food was eaten and the next one spawned beside the grown snake
C16_Witness ==
    /\ Len(snake) = 4 /\ score = 10
    /\ \E i \in 1..4 : food[2] = snake[i][2] /\ (food[1] - snake[i][1]) \in {-1, 1}

\* C17 as stated: whenever the committed direction is (1,0), a request for
\* (-1,0) leaves the pending direction unchanged, and it is (1,0).
C17_RejectedLeavesRight ==
    dir = <<1, 0>> =>
        /\ NextDirAfter(<<-1, 0>>) = nextDir
        /\ NextDirAfter(<<-1, 0>>) = <<1, 0>>

\* C17 amended: whenever the committed direction is (1,0), a request for
\* (-1,0) leaves the pending direction unchanged; it is (1,0) unless a turn
\* to (0,-1) or (0,1) was buffered since the last step, which stays buffered.
C17_RejectedLeavesPending ==
    dir = <<1, 0>> =>
        /\ NextDirAfter(<<-1, 0>>) = nextDir
        /\ nextDir \in {<<1, 0>>, <<0, -1>>, <<0, 1>>}

\* moving right with a turn up buffered
C17_Witness == dir = <<1, 0>> /\ nextDir = <<0, -1>> /\ Len(snake) = 3 /\ ts > 0

\* C18 as stated: from the start layout heading (1,0) with score 0, a tick
\* with no direction input yields the layout moved one cell right and
\* score 0, wherever the food is.
C18_FirstTickMoves ==
    [][(TickRan /\ snake = StartLayout /\ nextDir = <<1, 0>> /\ score = 0) =>
        /\ snake' = <<CellAhead>> \o SubSeq(StartLayout, 1, 2)
        /\ score' = 0]_vars

\* C18 amended: that tick yields the moved layout and score 0 unless the
\* food is the cell ahead of the head; then the snake grows onto it and the
\* score is 10.
C18_FirstTickMovesOrEats ==
    [][(TickRan /\ snake = StartLayout /\ nextDir = <<1, 0>> /\ score = 0) =>
        IF food = CellAhead
        THEN snake' = <<CellAhead>> \o StartLayout /\ score' = 10
        ELSE /\ snake' = <<CellAhead>> \o SubSeq(StartLayout, 1, 2)
             /\ score' = 0]_vars

\* the first tick of a session ate the food that had spawned ahead
C18_Witness ==
    /\ snake = <<CellAhead>> \o StartLayout
    /\ score = 10
    /\ lastStep = ts

\* C19: on MIN_MS..MAX_MS the two maps are inverse and reverse the order:
\* the interval of the slider position of an interval is that interval, the
\* position of the interval of a position is that position, a longer
\* interval has a smaller position, and each end maps to the other end.
C19_SliderMapsInverse ==
    /\ sliderToTickMs(tickMsToSlider(tickMs)) = tickMs
    /\ tickMsToSlider(sliderToTickMs(tickMs)) = tickMs
    /\ tickMs < MAX_MS =>
         /\ tickMsToSlider(tickMs + 1) < tickMsToSlider(tickMs)
         /\ sliderToTickMs(tickMs + 1) < sliderToTickMs(tickMs)
    /\ tickMs = MIN_MS =>
         tickMsToSlider(tickMs) = MAX_MS /\ sliderToTickMs(tickMs) = MAX_MS
    /\ tickMs = MAX_MS =>
         tickMsToSlider(tickMs) = MIN_MS /\ sliderToTickMs(tickMs) = MIN_MS

\* the slowest interval, shown at the left end of the slider
C19_Witness == tickMs = MAX_MS /\ tickMsToSlider(tickMs) = MIN_MS

\* C20: the tick interval is always within MIN_MS..MAX_MS, the faster key
\* at MIN_MS and the slower key at MAX_MS leave it unchanged.
C20_TickMsInRange ==
    /\ MIN_MS <= tickMs /\ tickMs <= MAX_MS
    /\ tickMs = MIN_MS => FasterMs(tickMs) = tickMs
    /\ tickMs = MAX_MS => SlowerMs(tickMs) = tickMs

\* the fastest interval
C20_Witness == tickMs = MIN_MS /\ FasterMs(tickMs) = MIN_MS

\* C21: a direction key changes at most the pending direction; the
\* committed direction changes only in a simulation step, where it becomes
\* the pending direction, and at a restart, where it becomes (1,0); a frame
\* never changes the pending direction.
C21_KeysOnlyBuffer ==
    [][/\ (nextDir' # nextDir /\ ~FrameRan) =>
             \/ UNCHANGED <<dir, snake, food, score, dead, running>>
             \/ RestartRan /\ nextDir' = <<1, 0>> /\ dir' = <<1, 0>>
       /\ dir' # dir =>
             \/ TickRan /\ dir' = nextDir
             \/ RestartRan /\ dir' = <<1, 0>>
       /\ TickRan => dir' = nextDir
       /\ FrameRan => nextDir' = nextDir]_vars

\* a turn down is buffered on top of the committed turn left, between ticks
C21_Witness ==
    /\ dir = <<-1, 0>> /\ nextDir = <<0, 1>>
    /\ running /\ ~dead /\ ts > lastStep

\* C22: a due simulation step whose next head is the current tail cell
\* terminates the session and does not move the snake.
C22_TailCellCollides ==
    [][(/\ FrameRan
        /\ running /\ ~dead /\ ts' - MeasuredFrom(ts') >= tickMs
        /\ Torus(snake[1], nextDir) = snake[Len(snake)]) =>
            (dead' /\ snake' = snake)]_vars

\* the session ended on the cell of its own tail
C22_Witness == dead /\ Torus(snake[1], dir) = snake[Len(snake)]

\* C23: a simulation step that ends the session leaves snake, food and
\* score (and pending direction and interval) unchanged.
C23_CollisionKeepsSnake ==
    [][TerminalTick =>
        /\ snake' = snake
        /\ food' = food
        /\ score' = score
        /\ nextDir' = nextDir
        /\ tickMs' = tickMs]_vars

\* a session ended at score 10 with the burst of the collision in the air
C23_Witness ==
    /\ dead /\ ~running /\ score = 10 /\ Len(snake) = 4
    /\ Len(particles) >= 20

\* C24: the loop of spawnFood ends, and the tick completes with the food on
\* a cell off the snake, whenever a cell of the grid is off the snake; when
\* the snake is on every cell the loop goes on forever.
C24_SpawnLoopEnds ==
    /\ (spawn.pc = "draw" /\ CellSet(snake) # Cells)
          ~> (spawn.pc = "idle" /\ food \in Cells \ CellSet(snake))
    /\ []((spawn.pc = "draw" /\ CellSet(snake) = Cells) => [](spawn.pc = "draw"))

\* the loop found the only free cell of the grid
C24_Witness ==
    /\ spawn.pc = "idle"
    /\ Len(snake) = Cols * Rows - 1
    /\ food \in Cells \ CellSet(snake)

\* C25: the snake length is 3 + score / 10, the score being a non-negative
\* multiple of 10 and the length at least 3, and a restart takes them to
\* 3 and 0 together.
C25_LengthFollowsScore ==
    /\ [](/\ score >= 0 /\ score % 10 = 0
          /\ Len(snake) >= 3
          /\ Len(snake) = 3 + score \div 10)
    /\ [][RestartRan => Len(snake') = 3 /\ score' = 0]_vars

\* two foods eaten, then a move without food
C25_Witness ==
    /\ Len(snake) = 5 /\ score = 20
    /\ food # snake[1] /\ ts = lastStep /\ ts >= 5 * InitialTickMs

\* C26: a session whose snake has length 3 never ends on a step: every
\* terminated state has score at least 10 and length at least 4.
C26_ThreeCellsNeverCollide ==
    /\ [](dead => (score >= 10 /\ Len(snake) >= 4))
    /\ [][(FrameRan /\ Len(snake) = 3) => ~dead']_vars

\* a snake of three cells has turned up, left and down on the spot and goes on
C26_Witness ==
    /\ ~dead /\ Len(snake) = 3 /\ score = 0
    /\ dir = <<0, 1>>
    /\ snake[1] = Torus(snake[2], <<0, 1>>)
    /\ snake[2] = Torus(snake[3], <<Cols - 1, 0>>)
    /\ ts = lastStep

\* C27: a terminated session is never running.
C27_DeadNotRunning == dead => ~running

====
